---------------------------- MODULE Spec2Model ----------------------------
(***************************************************************************)
(* A model of the MDX/MDD decoder of beluga-builder (src/src/mdict.rs).    *)
(*                                                                         *)
(* Conventions                                                             *)
(*  - A byte is a number 0..255, a buffer (Vec<u8>) a sequence of bytes, a *)
(*    String a sequence of code points.                                    *)
(*  - A Result is a record [k, v]: k = "ok" with the value v, k = "err"    *)
(*    with the message v, or k = "panic" when the call unwinds.            *)
(*  - A u64/usize is the number itself; a negative number n stands for the *)
(*    wrapped value 2^64 + n that a build without overflow checks computes *)
(*    (all magnitudes of the model are far below 2^63, so the unsigned     *)
(*    order is: every n >= 0 is below every n < 0).                        *)
(***************************************************************************)
EXTENDS Integers, Sequences, FiniteSets, TLC

(***************************************************************************)
(* Bounds of the model.                                                    *)
(***************************************************************************)
\* the generated files hold up to MaxKw keywords
MaxKw == 2
\* the generated files hold up to MaxRB record blocks
MaxRB == 3

(***************************************************************************)
(* Bytes.                                                                  *)
(***************************************************************************)
Zeros(n) == [i \in 1..n |-> 0]

RECURSIVE Xor(_, _)
Xor(a, b) ==
    IF a = 0 THEN b
    ELSE IF b = 0 THEN a
    ELSE (((a % 2) + (b % 2)) % 2) + (2 * Xor(a \div 2, b \div 2))

RECURSIVE Concat(_)
Concat(ss) == IF ss = <<>> THEN <<>> ELSE Head(ss) \o Concat(Tail(ss))

Ok(v) == [k |-> "ok", v |-> v]
Err(m) == [k |-> "err", v |-> m]
Panic(m) == [k |-> "panic", v |-> m]

\* unsigned order on the representation of u64 values
ULe(a, b) ==
    IF a >= 0 /\ b >= 0 THEN a <= b
    ELSE IF a < 0 /\ b < 0 THEN a <= b
    ELSE a >= 0

(***************************************************************************)
(* utils.rs (not part of src/): big-endian integers, UTF-16 code units.    *)
(***************************************************************************)
RECURSIVE BigEndian(_)
BigEndian(b) ==
    IF b = <<>> THEN 0
    ELSE (BigEndian(SubSeq(b, 1, Len(b) - 1)) * 256) + b[Len(b)]

u8v_to_u64(b) == IF Len(b) = 8 THEN Ok(BigEndian(b)) ELSE Err("Invalid u8 vector length")

u8v_to_u32(b) == IF Len(b) = 4 THEN Ok(BigEndian(b)) ELSE Err("Invalid u8 vector length")

u8v_to_u16(b) == IF Len(b) = 2 THEN Ok(BigEndian(b)) ELSE Err("Invalid u8 vector length")

\* Endianness::Little
u8v_to_u16v(b) ==
    IF (Len(b) % 2) # 0 THEN Err("Invalid u8 vector length")
    ELSE Ok([i \in 1..(Len(b) \div 2) |-> b[(2 * i) - 1] + (256 * b[2 * i])])

(***************************************************************************)
(* Text conversions of the standard library, for code points below 0x800   *)
(* and the surrogate range (the alphabet of the model's inputs).           *)
(***************************************************************************)
IsSurrogate(u) == u >= 55296 /\ u <= 57343

\* String::from_utf16: an unpaired surrogate is an error
from_utf16(units) ==
    IF \E i \in 1..Len(units) : IsSurrogate(units[i])
    THEN Err("invalid utf-16: lone surrogate found")
    ELSE Ok(units)

\* the well-formed one- and two-byte sequences of UTF-8
RECURSIVE Utf8Decode(_)
Utf8Decode(b) ==
    IF b = <<>> THEN Ok(<<>>)
    ELSE IF b[1] < 128
         THEN LET r == Utf8Decode(Tail(b))
              IN  IF r.k = "ok" THEN Ok(<<b[1]>> \o r.v) ELSE r
    ELSE IF b[1] >= 194 /\ b[1] <= 223 /\ Len(b) >= 2 /\ b[2] >= 128 /\ b[2] <= 191
         THEN LET r == Utf8Decode(SubSeq(b, 3, Len(b)))
              IN  IF r.k = "ok"
                  THEN Ok(<<((b[1] - 192) * 64) + (b[2] - 128)>> \o r.v)
                  ELSE r
    ELSE Err("invalid utf-8 sequence")

\* String::from_utf8
from_utf8(b) == Utf8Decode(b)

\* str::as_bytes: the UTF-8 encoding of a String
RECURSIVE as_bytes(_)
as_bytes(s) ==
    IF s = <<>> THEN <<>>
    ELSE (IF s[1] < 128 THEN <<s[1]>>
          ELSE <<192 + (s[1] \div 64), 128 + (s[1] % 64)>>) \o as_bytes(Tail(s))

(***************************************************************************)
(* Scanner: a cursor [buf, pos] over a decoded buffer.  Every reader       *)
(* returns a Result whose value is [val, pos]: what was read and the       *)
(* cursor after it.                                                        *)
(***************************************************************************)
text_tail(v2, utf16) == IF v2 THEN (IF utf16 THEN 2 ELSE 1) ELSE 0

\* Scanner::read.  n may be a wrapped (negative) count: pos + n then wraps
\* around, and when the sum passes the length check Vec::with_capacity(n)
\* panics with a capacity overflow.
ScRead(buf, pos, n) ==
    IF n >= 0
    THEN IF pos + n > Len(buf)
         THEN Err("Invalid read size")
         ELSE Ok([val |-> SubSeq(buf, pos + 1, pos + n), pos |-> pos + n])
    ELSE IF pos + n < 0 \/ pos + n > Len(buf)
         THEN Err("Invalid read size")
         ELSE Panic("capacity overflow")

\* Scanner::read_number
ScReadNumber(buf, pos, v2) ==
    LET r == ScRead(buf, pos, IF v2 THEN 8 ELSE 4)
    IN  IF r.k # "ok" THEN r
        ELSE LET n == IF v2 THEN u8v_to_u64(r.v.val) ELSE u8v_to_u32(r.v.val)
             IN  IF n.k # "ok" THEN n ELSE Ok([val |-> n.v, pos |-> r.v.pos])

\* Scanner::read_short_number
ScReadShortNumber(buf, pos, v2) ==
    LET r == ScRead(buf, pos, IF v2 THEN 2 ELSE 1)
    IN  IF r.k # "ok" THEN r
        ELSE IF v2
             THEN LET n == u8v_to_u16(r.v.val)
                  IN  IF n.k # "ok" THEN n ELSE Ok([val |-> n.v, pos |-> r.v.pos])
             ELSE Ok([val |-> r.v.val[1], pos |-> r.v.pos])

\* Scanner::read_text
ScReadText(buf, pos, n, v2, utf16) ==
    LET r == ScRead(buf, pos, IF utf16 THEN n * 2 ELSE n)
    IN  IF r.k # "ok" THEN r
        ELSE IF utf16
             THEN LET u == u8v_to_u16v(r.v.val)
                  IN  IF u.k # "ok" THEN u
                      ELSE LET s == from_utf16(u.v)
                           IN  IF s.k # "ok" THEN s
                               ELSE Ok([val |-> s.v,
                                        pos |-> r.v.pos + text_tail(v2, utf16)])
             ELSE LET s == from_utf8(r.v.val)
                  IN  IF s.k # "ok" THEN s
                      ELSE Ok([val |-> s.v, pos |-> r.v.pos + text_tail(v2, utf16)])

\* the first loop of Scanner::read_text_unsized: the number of bytes before
\* the terminator, or the error of the read that runs off the buffer
RECURSIVE ScanLength(_, _, _)
ScanLength(buf, pos, utf16) ==
    LET r == ScRead(buf, pos, IF utf16 THEN 2 ELSE 1)
    IN  IF r.k # "ok" THEN r
        ELSE IF (utf16 /\ u8v_to_u16(r.v.val).v = 0) \/ (~utf16 /\ r.v.val[1] = 0)
             THEN Ok(0)
             ELSE LET m == ScanLength(buf, r.v.pos, utf16)
                  IN  IF m.k # "ok" THEN m
                      ELSE Ok(m.v + (IF utf16 THEN 2 ELSE 1))

\* Scanner::read_text_unsized
ScReadTextUnsized(buf, pos, utf16) ==
    LET l == ScanLength(buf, pos, utf16)
    IN  IF l.k # "ok" THEN l
        ELSE LET r == ScRead(buf, pos, l.v)
             IN  IF r.k # "ok" THEN r
                 ELSE IF utf16
                      THEN LET u == u8v_to_u16v(r.v.val)
                           IN  IF u.k # "ok" THEN u
                               ELSE LET s == from_utf16(u.v)
                                    IN  IF s.k # "ok" THEN s
                                        ELSE Ok([val |-> s.v, pos |-> r.v.pos + 2])
                      ELSE LET s == from_utf8(r.v.val)
                           IN  IF s.k # "ok" THEN s
                               ELSE Ok([val |-> s.v, pos |-> r.v.pos + 1])

(***************************************************************************)
(* Block codec.  The three external codecs are modelled by what the code   *)
(* sees of them: RIPEMD-128 as a fixed 16-byte digest function, zlib and   *)
(* LZO1X as partial functions from a body to its decoded bytes.            *)
(***************************************************************************)
\* Ripemd128::input + result: a 16-byte digest of the 8-byte pass key
Ripemd128(key) == [i \in 1..16 |-> (key[((i - 1) % 8) + 1] + (7 * i)) % 256]

\* ZlibDecoder::read_to_end: a stream is the method byte 0x78 followed by
\* the stored bytes; anything else is a decoder error
Inflate(body) ==
    IF body # <<>> /\ body[1] = 120 THEN Ok(Tail(body))
    ELSE Err("corrupt deflate stream")

\* LZOContext::decompress_to_slice into a slice of out_len bytes: the
\* stream <<0x11, 0, 0>> is the end-of-stream marker alone (no output);
\* a literal run <<17 + n, b1..bn, 0x11, 0, 0>> needs n bytes of output
LzoStatus(body, out_len) ==
    IF body = <<17, 0, 0>> THEN "OK"
    ELSE IF Len(body) >= 4 /\ body[1] > 17 /\ Len(body) = (body[1] - 17) + 4
            /\ SubSeq(body, Len(body) - 2, Len(body)) = <<17, 0, 0>>
         THEN (IF body[1] - 17 <= out_len THEN "OK" ELSE "OUTPUT_OVERRUN")
    ELSE "ERROR"

\* decrypt: byte i (0-based) of the result is the nibble-swapped byte
\* XOR prev XOR (i & 0xFF) XOR k[i % kl], prev being the byte before it in
\* the input buffer (0x36 for the first)
decrypt(buf, key) ==
    LET k == Ripemd128(key)
    IN  [i \in 1..Len(buf) |->
           LET b == buf[i]
               prev == IF i = 1 THEN 54 ELSE buf[i - 1]
               sw == (b \div 16) + ((b % 16) * 16)
           IN  Xor(Xor(Xor(sw, prev), (i - 1) % 256), k[((i - 1) % Len(k)) + 1])]

\* read_block.  Beside the Result it reports whether the body was
\* decrypted and which decoder ran on it.
read_block(buf, decompress_length, encrypt) ==
    IF buf = <<>>
    THEN [k |-> "panic", v |-> "index out of bounds", decrypted |-> FALSE, codec |-> "none"]
    ELSE LET compress == buf[1]
         IN  IF Len(buf) < 8
             THEN [k |-> "panic", v |-> "block shorter than its header",
                   decrypted |-> FALSE, codec |-> "none"]
             ELSE IF compress = 0
             THEN [k |-> "ok", v |-> SubSeq(buf, 9, Len(buf)),
                   decrypted |-> FALSE, codec |-> "none"]
             ELSE LET tmp == SubSeq(buf, 1, 8)
                      dec == (encrypt \div 2) % 2 = 1
                      body == IF dec
                              THEN decrypt(SubSeq(buf, 9, Len(buf)),
                                           SubSeq(tmp, 5, 8) \o <<149, 54, 0, 0>>)
                              ELSE SubSeq(buf, 9, Len(buf))
                  IN  IF compress = 2
                      THEN LET r == Inflate(body)
                           IN  [k |-> r.k, v |-> r.v, decrypted |-> dec, codec |-> "zlib"]
                      ELSE IF LzoStatus(body, 0) = "OK"
                           THEN [k |-> "ok", v |-> <<>>, decrypted |-> dec, codec |-> "lzo"]
                           ELSE [k |-> "panic", v |-> "LZO decompress error",
                                 decrypted |-> dec, codec |-> "lzo"]

NoBlock == [compress |-> -1, k |-> "none", decrypted |-> FALSE, codec |-> "none"]

\* what is seen of a call read_block(buf, _, _) that returned b
Observed(buf, b) ==
    [compress |-> IF buf = <<>> THEN -1 ELSE buf[1], k |-> b.k,
     decrypted |-> b.decrypted, codec |-> b.codec]

(***************************************************************************)
(* Header parser.  The header is given as read by quick_xml: whether the   *)
(* XML is well formed, and the attribute bag of the Dictionary element (a  *)
(* function from the attribute names present to their values).             *)
(***************************************************************************)
\* str::to_lowercase on the attribute values of the model
to_lowercase(s) == IF s \in {"no", "No", "NO"} THEN "no" ELSE s

\* str::parse::<f32>, in tenths
parse_f32(s) ==
    CASE s = "1.2" -> Ok(12)
      [] s = "2.0" -> Ok(20)
      [] s = "3.0" -> Ok(30)
      [] OTHER -> Err("invalid float literal")

\* str::parse::<u8>
parse_u8(s) ==
    CASE s = "0" -> Ok(0)
      [] s = "1" -> Ok(1)
      [] s = "2" -> Ok(2)
      [] s = "3" -> Ok(3)
      [] s = "256" -> Err("number too large to fit in target type")
      [] OTHER -> Err("invalid digit found in string")

\* Mdict::parse_header: the Result and the fields as the call leaves them,
\* given the fields m = [attrs, v2, encrypt, utf16] before it
parse_header(hdr, m) ==
    IF hdr.xml = "truncated" THEN [k |-> "err", v |-> "invalid utf-16"] @@ m
    ELSE IF hdr.xml = "malformed" THEN [k |-> "panic", v |-> "Error at position"] @@ m
    ELSE IF hdr.xml = "badattr" THEN [k |-> "err", v |-> "Invalid attribute"] @@ m
    ELSE
    LET a == hdr.attrs
        m1 == [m EXCEPT !.attrs = a]
    IN  IF "GeneratedByEngineVersion" \notin DOMAIN a
        THEN [k |-> "err", v |-> "No field: GeneratedByEngineVersion"] @@ m1
        ELSE
        LET version == parse_f32(a["GeneratedByEngineVersion"])
        IN  IF version.k # "ok" THEN [k |-> "err", v |-> version.v] @@ m1
            ELSE
            LET m2 == [m1 EXCEPT !.v2 = IF version.v >= 20 THEN TRUE ELSE @]
            IN  IF "Encrypted" \notin DOMAIN a
                THEN [k |-> "err", v |-> "No field: Encrypted"] @@ m2
                ELSE
                LET e == IF to_lowercase(a["Encrypted"]) = "no"
                         THEN Ok(0)
                         ELSE parse_u8(a["Encrypted"])
                IN  IF e.k # "ok" THEN [k |-> "err", v |-> e.v] @@ m2
                    ELSE
                    LET encoding == IF "Encoding" \in DOMAIN a
                                    THEN a["Encoding"] ELSE ""
                    IN  [k |-> "ok", v |-> "",
                         attrs |-> a, v2 |-> m2.v2, encrypt |-> e.v,
                         utf16 |-> (encoding = "UTF16" \/ encoding = "")]

(***************************************************************************)
(* The input file.  `file` holds the bytes that follow the header and its  *)
(* checksum; a position is absolute, HdrEnd being the position of the      *)
(* first of these bytes.                                                   *)
(***************************************************************************)
\* length prefix + XML of the header, as consumed by parse_header
HdrLen == 60
\* position after the header's checksum
HdrEnd == HdrLen + 4

Min(a, b) == IF a <= b THEN a ELSE b

\* Mdict::read: a buffer of n bytes, zero where the file has ended, and the
\* position after the bytes that were there
FRead(f, pos, n) ==
    LET have == Len(f) - (pos - HdrEnd)
        got == IF have < 0 THEN 0 ELSE Min(n, have)
    IN  [val |-> SubSeq(f, (pos - HdrEnd) + 1, (pos - HdrEnd) + got) \o Zeros(n - got),
         pos |-> pos + got]

\* Mdict::read_number (read_u64 or read_u32)
FReadNumber(f, pos, v2) ==
    LET r == FRead(f, pos, IF v2 THEN 8 ELSE 4)
        n == IF v2 THEN u8v_to_u64(r.val) ELSE u8v_to_u32(r.val)
    IN  IF n.k # "ok" THEN n ELSE Ok([val |-> n.v, pos |-> r.pos])

\* a - b on u64/usize: a panic with overflow checks, a wrapped value without
USub(a, b, checks) ==
    IF a >= b THEN Ok(a - b)
    ELSE IF checks THEN Panic("attempt to subtract with overflow")
    ELSE Ok(a - b)

(***************************************************************************)
(* Index parsers.  Each returns its Result together with the fields it     *)
(* assigns and the file position it leaves.                                *)
(***************************************************************************)
Summary0 ==
    [num_blocks |-> 0, num_entries |-> 0, key_index_decomp_len |-> 0,
     key_index_comp_len |-> 0, key_blocks_len |-> 0]

RecordSummary0 ==
    [num_blocks |-> 0, num_entries |-> 0, index_len |-> 0, blocks_len |-> 0,
     blocks_pos |-> 0]

\* Mdict::parse_summary
parse_summary(f, pos, v2) ==
    LET a == FReadNumber(f, pos, v2)
        b == FReadNumber(f, a.v.pos, v2)
        c == IF v2 THEN FReadNumber(f, b.v.pos, v2)
             ELSE Ok([val |-> 0, pos |-> b.v.pos])
        d == FReadNumber(f, c.v.pos, v2)
        e == FReadNumber(f, d.v.pos, v2)
    IN  [k |-> "ok", v |-> "", pos |-> e.v.pos,
         summary |-> [num_blocks |-> a.v.val, num_entries |-> b.v.val,
                      key_index_decomp_len |-> c.v.val,
                      key_index_comp_len |-> d.v.val,
                      key_blocks_len |-> e.v.val]]

\* the loop of parse_keyword_index from block i on; acc is self.kis
RECURSIVE KeywordIndexLoop(_, _, _, _, _, _, _, _)
KeywordIndexLoop(buf, pos, i, n, block_offset, acc, v2, utf16) ==
    IF i >= n THEN [k |-> "ok", v |-> "", kis |-> acc]
    ELSE
    LET num_entries == ScReadNumber(buf, pos, v2)
    IN  IF num_entries.k # "ok" THEN [k |-> "err", v |-> num_entries.v, kis |-> acc] ELSE
    LET first_size == ScReadShortNumber(buf, num_entries.v.pos, v2)
    IN  IF first_size.k # "ok" THEN [k |-> "err", v |-> first_size.v, kis |-> acc] ELSE
    LET first_word == ScReadText(buf, first_size.v.pos, first_size.v.val, v2, utf16)
    IN  IF first_word.k # "ok" THEN [k |-> "err", v |-> first_word.v, kis |-> acc] ELSE
    LET last_size == ScReadShortNumber(buf, first_word.v.pos, v2)
    IN  IF last_size.k # "ok" THEN [k |-> "err", v |-> last_size.v, kis |-> acc] ELSE
    LET last_word == ScReadText(buf, last_size.v.pos, last_size.v.val, v2, utf16)
    IN  IF last_word.k # "ok" THEN [k |-> "err", v |-> last_word.v, kis |-> acc] ELSE
    LET comp_size == ScReadNumber(buf, last_word.v.pos, v2)
    IN  IF comp_size.k # "ok" THEN [k |-> "err", v |-> comp_size.v, kis |-> acc] ELSE
    LET decomp_size == ScReadNumber(buf, comp_size.v.pos, v2)
    IN  IF decomp_size.k # "ok" THEN [k |-> "err", v |-> decomp_size.v, kis |-> acc] ELSE
        KeywordIndexLoop(buf, decomp_size.v.pos, i + 1, n,
                         block_offset + comp_size.v.val,
                         Append(acc, [num_entries |-> num_entries.v.val,
                                      first_word |-> first_word.v.val,
                                      last_word |-> last_word.v.val,
                                      comp_size |-> comp_size.v.val,
                                      decomp_size |-> decomp_size.v.val,
                                      block_offset |-> block_offset,
                                      block |-> <<>>]),
                         v2, utf16)

\* Mdict::parse_keyword_index
parse_keyword_index(f, pos, summary, v2, utf16, encrypt) ==
    LET rd == FRead(f, pos, summary.key_index_comp_len)
        b == read_block(rd.val, summary.key_index_decomp_len, encrypt)
    IN  IF b.k # "ok"
        THEN [k |-> b.k, v |-> b.v, kis |-> <<>>, pos |-> rd.pos,
              obs |-> Observed(rd.val, b)]
        ELSE KeywordIndexLoop(b.v, 0, 0, summary.num_blocks, 0, <<>>, v2, utf16)
             @@ [pos |-> rd.pos, obs |-> Observed(rd.val, b)]

\* the entry loop of parse_keyword_block over one decoded block, from entry
\* i on; block is item.block
RECURSIVE KeywordEntryLoop(_, _, _, _, _, _, _, _)
KeywordEntryLoop(b, pos, i, n, block, v2, utf16, checks) ==
    IF i >= n THEN [k |-> "ok", v |-> "", block |-> block]
    ELSE
    LET offset == ScReadNumber(b, pos, v2)
    IN  IF offset.k # "ok" THEN [k |-> "err", v |-> offset.v, block |-> block] ELSE
    LET key == ScReadTextUnsized(b, offset.v.pos, utf16)
    IN  IF key.k # "ok" THEN [k |-> "err", v |-> key.v, block |-> block] ELSE
    LET size == IF i > 1
                THEN USub(offset.v.val, block[(i - 1) + 1].offset, checks)
                ELSE Ok(0)
    IN  IF size.k # "ok" THEN [k |-> size.k, v |-> size.v, block |-> block] ELSE
    LET sized == IF i > 1
                 THEN [block EXCEPT ![(i - 1) + 1].size = size.v]
                 ELSE block
    IN  KeywordEntryLoop(b, key.v.pos, i + 1, n,
                         Append(sized, [offset |-> offset.v.val,
                                        key |-> key.v.val, size |-> 0]),
                         v2, utf16, checks)

\* the loop of parse_keyword_block over self.kis, from item j (1-based) on
RECURSIVE KeywordBlockLoop(_, _, _, _, _, _)
KeywordBlockLoop(buf, kis, j, v2, utf16, checks) ==
    IF j > Len(kis) THEN [k |-> "ok", v |-> "", kis |-> kis]
    ELSE
    LET item == kis[j]
        bf == ScRead(buf, item.block_offset, item.comp_size)
    IN  IF bf.k # "ok" THEN [k |-> bf.k, v |-> bf.v, kis |-> kis] ELSE
    LET b == read_block(bf.v.val, item.decomp_size, 0)
    IN  IF b.k # "ok" THEN [k |-> b.k, v |-> b.v, kis |-> kis] ELSE
    LET es == KeywordEntryLoop(b.v, 0, 0, item.num_entries, item.block,
                               v2, utf16, checks)
        kis1 == [kis EXCEPT ![j].block = es.block]
    IN  IF es.k # "ok" THEN [k |-> es.k, v |-> es.v, kis |-> kis1]
        ELSE KeywordBlockLoop(buf, kis1, j + 1, v2, utf16, checks)

\* Mdict::parse_keyword_block
parse_keyword_block(f, pos, summary, kis, v2, utf16, checks) ==
    LET rd == FRead(f, pos, summary.key_blocks_len)
    IN  KeywordBlockLoop(rd.val, kis, 1, v2, utf16, checks) @@ [pos |-> rd.pos]

\* Mdict::parse_record_summary
parse_record_summary(f, pos, v2) ==
    LET rd == FRead(f, pos, 32)
        a == ScReadNumber(rd.val, 0, v2)
        b == ScReadNumber(rd.val, a.v.pos, v2)
        c == ScReadNumber(rd.val, b.v.pos, v2)
        d == ScReadNumber(rd.val, c.v.pos, v2)
    IN  [k |-> "ok", v |-> "", pos |-> rd.pos,
         record_summary |-> [num_blocks |-> a.v.val, num_entries |-> b.v.val,
                             index_len |-> c.v.val, blocks_len |-> d.v.val,
                             blocks_pos |-> rd.pos + c.v.val]]

\* a loop that does not push the pair after the last block
RECURSIVE RecordIndexLoopNoSentinel(_, _, _, _, _, _, _)
RecordIndexLoopNoSentinel(buf, pos, i, p0, p1, acc, v2) ==
    IF i = 0 THEN [k |-> "ok", v |-> "", record_index |-> acc]
    ELSE
    LET acc1 == Append(acc, <<p0, p1>>)
        c == ScReadNumber(buf, pos, v2)
    IN  IF c.k # "ok" THEN [k |-> "err", v |-> c.v, record_index |-> acc1] ELSE
    LET d == ScReadNumber(buf, c.v.pos, v2)
    IN  IF d.k # "ok" THEN [k |-> "err", v |-> d.v, record_index |-> acc1]
        ELSE RecordIndexLoopNoSentinel(buf, d.v.pos, i - 1, p0 + c.v.val,
                                       p1 + d.v.val, acc1, v2)

\* the loop of parse_record_index with i blocks left; acc is
\* self.record_index
RECURSIVE RecordIndexLoop(_, _, _, _, _, _, _)
RecordIndexLoop(buf, pos, i, p0, p1, acc, v2) ==
    IF i = 0 THEN [k |-> "ok", v |-> "", record_index |-> Append(acc, <<p0, p1>>)]
    ELSE
    LET acc1 == Append(acc, <<p0, p1>>)
        c == ScReadNumber(buf, pos, v2)
    IN  IF c.k # "ok" THEN [k |-> "err", v |-> c.v, record_index |-> acc1] ELSE
    LET d == ScReadNumber(buf, c.v.pos, v2)
    IN  IF d.k # "ok" THEN [k |-> "err", v |-> d.v, record_index |-> acc1]
        ELSE RecordIndexLoop(buf, d.v.pos, i - 1, p0 + c.v.val, p1 + d.v.val,
                             acc1, v2)

\* Mdict::parse_record_index
parse_record_index(f, pos, record_summary, v2) ==
    LET rd == FRead(f, pos, record_summary.index_len)
    IN  RecordIndexLoop(rd.val, 0, record_summary.num_blocks,
                        record_summary.blocks_pos, 0, <<>>, v2)
        @@ [pos |-> rd.pos]

(***************************************************************************)
(* Definition resolver.                                                    *)
(***************************************************************************)
\* a search that sends an offset equal to a block's start cursor to the
\* block before it
RECURSIVE SearchLoopStrict(_, _, _, _)
SearchLoopStrict(record_index, offset, li, hi) ==
    LET mi == (hi + li) \div 2
        o2 == record_index[mi + 1][2]
        li1 == IF offset > o2 THEN mi ELSE li
        hi1 == IF offset > o2 THEN hi ELSE mi
    IN  IF hi1 - li1 <= 1 THEN li1
        ELSE SearchLoopStrict(record_index, offset, li1, hi1)

\* the binary-search loop of parse_definition: the index li it stops at
\* (0-based, as in the code)
RECURSIVE SearchLoop(_, _, _, _)
SearchLoop(record_index, offset, li, hi) ==
    LET mi == (hi + li) \div 2
        o2 == record_index[mi + 1][2]
        li1 == IF offset >= o2 THEN mi ELSE li
        hi1 == IF offset >= o2 THEN hi ELSE mi
    IN  IF hi1 - li1 <= 1 THEN li1
        ELSE SearchLoop(record_index, offset, li1, hi1)

\* the bounds check of parse_definition: TRUE when the call goes on
InBounds(record_index, offset) ==
    ~(offset > record_index[Len(record_index)][2] \/ offset < record_index[1][2])

\* the cache test of parse_definition
CacheHit(cache_offset, cache, comp_offset) ==
    cache_offset = comp_offset /\ Len(cache) > 0

\* the extraction of the payload from a positioned scanner
Payload(buf, pos, kw, is_index, utf16, checks) ==
    IF is_index
    THEN LET txt == ScReadTextUnsized(buf, pos, utf16)
         IN  IF txt.k # "ok" THEN txt ELSE Ok(as_bytes(txt.v.val))
    ELSE LET size == IF kw.size = 0 THEN USub(Len(buf), pos, checks) ELSE Ok(kw.size)
         IN  IF size.k # "ok" THEN size
             ELSE LET data == ScRead(buf, pos, size.v)
                  IN  IF data.k # "ok" THEN data ELSE Ok(data.v.val)

NoSel == [li |-> -1, comp_offset |-> 0, decomp_offset |-> 0, comp_size |-> 0,
          decomp_size |-> 0]

\* Mdict::parse_definition on the fields m of the Mdict, with the outcome io
\* of the file operations ("ok", "seek" for a failing seek, "read" for a
\* failing read).  Beside the Result: the cache as the call leaves it,
\* whether the file was read, and the block the search selected.
parse_definition(kw, m, io) ==
    LET keep == [cache_offset |-> m.cache_offset, cache |-> m.cache,
                 read |-> FALSE, sel |-> NoSel, obs |-> NoBlock]
    IN
    IF Len(m.record_index) = 0
    THEN [k |-> "err", v |-> "Invalid record index length"] @@ keep
    ELSE IF ~InBounds(m.record_index, kw.offset)
    THEN [k |-> "err", v |-> "Out of index of record"] @@ keep
    ELSE
    LET li == SearchLoop(m.record_index, kw.offset, 0, Len(m.record_index) - 1)
    IN  IF li + 1 >= Len(m.record_index)
        THEN [k |-> "panic", v |-> "index out of bounds"] @@ keep
        ELSE
        LET comp_offset == m.record_index[li + 1][1]
            decomp_offset == m.record_index[li + 1][2]
            comp_size == m.record_index[li + 2][1] - comp_offset
            decomp_size == m.record_index[li + 2][2] - decomp_offset
            sel == [li |-> li, comp_offset |-> comp_offset,
                    decomp_offset |-> decomp_offset, comp_size |-> comp_size,
                    decomp_size |-> decomp_size]
            hit == CacheHit(m.cache_offset, m.cache, comp_offset)
            buffer == FRead(m.file, comp_offset, comp_size).val
            b == read_block(buffer, decomp_size, 0)
            blk == IF hit THEN Ok(m.cache)
                   ELSE IF io = "seek" THEN Panic("called unwrap on a seek error")
                   ELSE IF io = "read" THEN Err("read error")
                   ELSE [k |-> b.k, v |-> b.v]
            obs == IF hit \/ io # "ok" THEN NoBlock ELSE Observed(buffer, b)
            after == IF hit \/ blk.k # "ok"
                     THEN [cache_offset |-> m.cache_offset, cache |-> m.cache,
                           read |-> ~hit, sel |-> sel, obs |-> obs]
                     ELSE [cache_offset |-> comp_offset, cache |-> blk.v,
                           read |-> TRUE, sel |-> sel, obs |-> obs]
        IN  IF blk.k # "ok" THEN blk @@ after
            ELSE LET data == Payload(blk.v, kw.offset - decomp_offset, kw,
                                     m.is_index, m.utf16, m.overflow_checks)
                 IN  IF data.k # "ok" THEN [k |-> data.k, v |-> data.v] @@ after
                     ELSE [k |-> "ok", v |-> <<kw.key, data.v>>] @@ after

(***************************************************************************)
(* Input files.  A file is laid out from a description d:                  *)
(*   d.rbs   the record blocks, each [kind, items]: the way the block is   *)
(*           stored and the texts (Entry kind) or resources (Resource      *)
(*           kind) it holds, an item being a sequence of code points;      *)
(*   d.kbs   the keyword blocks, each a sequence of <<item, key>>: the     *)
(*           keyword points at the start of item number `item` (0-based,   *)
(*           over all record blocks), at the end of the record stream      *)
(*           (item = number of items) or one byte past it;                 *)
(*   d.kkind, d.kikind   how keyword blocks and the keyword index are      *)
(*           stored;                                                       *)
(*   d.claim the number added to the true entry count of every keyword     *)
(*           block in the keyword index;                                   *)
(*   d.rvar  "honest", or the way the record index departs from the        *)
(*           record blocks.                                                *)
(***************************************************************************)
Num(n, v2) == Zeros(IF v2 THEN 7 ELSE 3) \o <<n>>

Short(n, v2) == IF v2 THEN <<0, n>> ELSE <<n>>

\* one code point in the file's encoding; 0xD800 stands for an ill-formed
\* unit in either encoding
EncUnit(c, utf16) ==
    IF utf16 THEN <<c % 256, c \div 256>>
    ELSE IF c = 55296 THEN <<255>> ELSE as_bytes(<<c>>)

RECURSIVE EncText(_, _)
EncText(s, utf16) ==
    IF s = <<>> THEN <<>> ELSE EncUnit(s[1], utf16) \o EncText(Tail(s), utf16)

Nul(utf16) == IF utf16 THEN <<0, 0>> ELSE <<0>>

\* an item as stored in a record block
EncItem(it, utf16, is_index) ==
    IF is_index THEN EncText(it, utf16) \o Nul(utf16) ELSE EncText(it, FALSE)

RECURSIVE EncItems(_, _, _)
EncItems(its, utf16, is_index) ==
    IF its = <<>> THEN <<>>
    ELSE EncItem(its[1], utf16, is_index) \o EncItems(Tail(its), utf16, is_index)

\* the inverse of decrypt on bytes lo..hi of plain, prev being the
\* encrypted byte before them
RECURSIVE EncryptRange(_, _, _, _, _)
EncryptRange(plain, k, lo, hi, prev) ==
    IF lo > hi THEN <<>>
    ELSE IF lo = hi
    THEN LET x == Xor(Xor(Xor(plain[lo], prev), (lo - 1) % 256),
                      k[((lo - 1) % Len(k)) + 1])
         IN  <<(x \div 16) + ((x % 16) * 16)>>
    ELSE LET mid == (lo + hi) \div 2
             left == EncryptRange(plain, k, lo, mid, prev)
         IN  left \o EncryptRange(plain, k, mid + 1, hi, left[Len(left)])

BlockHeader(kind) ==
    <<(CASE kind = "raw" -> 0 [] kind = "lzo" -> 1 [] kind = "zlib" -> 2
         [] kind = "badzlib" -> 2 [] kind = "k3" -> 3), 0, 0, 0, 0, 0, 0, 1>>

\* a block as stored: header and body
RawBlock(kind, payload, encrypt) ==
    LET body == CASE kind = "raw" -> payload
                  [] kind = "zlib" -> <<120>> \o payload
                  [] kind = "badzlib" -> <<0>> \o payload
                  [] OTHER -> IF payload = <<>> THEN <<17, 0, 0>>
                              ELSE <<17 + Len(payload)>> \o payload \o <<17, 0, 0>>
        h == BlockHeader(kind)
    IN  h \o (IF kind # "raw" /\ (encrypt \div 2) % 2 = 1
              THEN EncryptRange(body, Ripemd128(SubSeq(h, 5, 8) \o <<149, 54, 0, 0>>),
                                1, Len(body), 54)
              ELSE body)

RECURSIVE AllItems(_)
AllItems(rbs) == IF rbs = <<>> THEN <<>> ELSE Head(rbs).items \o AllItems(Tail(rbs))

\* the offset in the decoded record stream that keyword item number i names
ItemOffset(d, i, utf16, is_index) ==
    LET its == AllItems(d.rbs)
    IN  IF i <= Len(its) THEN Len(EncItems(SubSeq(its, 1, i), utf16, is_index))
        ELSE Len(EncItems(its, utf16, is_index)) + (i - Len(its))

RECURSIVE KeyBlockPayload(_, _, _, _, _)
KeyBlockPayload(d, kb, v2, utf16, is_index) ==
    IF kb = <<>> THEN <<>>
    ELSE Num(ItemOffset(d, kb[1][1], utf16, is_index), v2)
         \o EncText(kb[1][2], utf16) \o Nul(utf16)
         \o KeyBlockPayload(d, Tail(kb), v2, utf16, is_index)

KeyBlockRaw(d, j, v2, utf16, is_index) ==
    RawBlock(d.kkind, KeyBlockPayload(d, d.kbs[j], v2, utf16, is_index), 0)

KeyIndexEntry(d, j, v2, utf16, is_index) ==
    LET kb == d.kbs[j]
        first == IF kb = <<>> THEN <<>> ELSE kb[1][2]
        last == IF kb = <<>> THEN <<>> ELSE kb[Len(kb)][2]
    IN  Num(Len(kb) + d.claim, v2)
        \o Short(Len(first), v2) \o EncText(first, utf16) \o Zeros(text_tail(v2, utf16))
        \o Short(Len(last), v2) \o EncText(last, utf16) \o Zeros(text_tail(v2, utf16))
        \o Num(Len(KeyBlockRaw(d, j, v2, utf16, is_index)), v2)
        \o Num(Len(KeyBlockPayload(d, kb, v2, utf16, is_index)), v2)

RecordPayload(rb, utf16, is_index) == EncItems(rb.items, utf16, is_index)

RecordRaw(rb, utf16, is_index) ==
    RawBlock(rb.kind, RecordPayload(rb, utf16, is_index), 0)

\* the (comp_delta, decomp_delta) pairs of the record index
RecordDeltas(d, utf16, is_index) ==
    LET honest == [j \in 1..Len(d.rbs) |->
                     <<Len(RecordRaw(d.rbs[j], utf16, is_index)),
                       Len(RecordPayload(d.rbs[j], utf16, is_index))>>]
    IN  CASE d.rvar = "honest" -> honest
          [] d.rvar = "zero_comp" ->
               \* the first block is listed with no stored bytes
               <<<<0, honest[1][2]>>>> \o Tail(honest)
          [] d.rvar = "zero_decomp" ->
               \* the first block is listed with no decoded bytes
               <<<<honest[1][1], 0>>>> \o Tail(honest)
          [] d.rvar = "short" ->
               \* the index region ends before its last pair
               SubSeq(honest, 1, Len(honest) - 1)
          [] d.rvar = "none" ->
               \* the record summary announces no block at all
               <<>>

RecordBlockCount(d) == IF d.rvar = "none" THEN 0 ELSE Len(d.rbs)

RECURSIVE Sum(_)
Sum(ns) == IF ns = <<>> THEN 0 ELSE Head(ns) + Sum(Tail(ns))

\* the bytes of the file after the header and its checksum
BuildFile(d, v2, utf16, encrypt, is_index) ==
    LET nk == Len(d.kbs)
        kraw == [j \in 1..nk |-> KeyBlockRaw(d, j, v2, utf16, is_index)]
        kidx == Concat([j \in 1..nk |-> KeyIndexEntry(d, j, v2, utf16, is_index)])
        kidxraw == RawBlock(d.kikind, kidx, encrypt)
        kblocks == Concat(kraw)
        deltas == RecordDeltas(d, utf16, is_index)
        ridx == Concat([j \in 1..Len(deltas) |->
                          Num(deltas[j][1], v2) \o Num(deltas[j][2], v2)])
        stored == IF d.rvar = "zero_comp" THEN Tail(d.rbs) ELSE d.rbs
        rblocks == Concat([j \in 1..Len(stored) |->
                             RecordRaw(stored[j], utf16, is_index)])
        nent == Sum([j \in 1..nk |-> Len(d.kbs[j])])
        rsum == Num(RecordBlockCount(d), v2) \o Num(nent, v2)
                \o Num(Len(ridx), v2) \o Num(Len(rblocks), v2)
    IN  Num(nk, v2) \o Num(nent, v2)
        \o (IF v2 THEN Num(Len(kidx), v2) ELSE <<>>)
        \o Num(Len(kidxraw), v2) \o Num(Len(kblocks), v2)
        \o Zeros(4)
        \o kidxraw \o kblocks
        \o rsum \o Zeros(32 - Len(rsum))
        \o ridx \o rblocks

(***************************************************************************)
(* The state: the fields of Mdict, the position of Mdict::parse, and what  *)
(* the sink callback has received.                                         *)
(***************************************************************************)
VARIABLES
    pc,               \* the step Mdict::parse is about to take
    is_index,         \* Mdict.is_index: TRUE for .mdx, FALSE for .mdd
    overflow_checks,  \* whether the build panics on integer overflow
    file,             \* the bytes of the file after the header
    fpos,             \* the position of Mdict.file
    attrs, v2, encrypt, utf16,
    summary, kis, record_summary, record_index,
    cache_offset, cache,
    ki, kj,           \* the keyword the loops of parse are at (1-based)
    emitted,          \* the calls of cb so far, in order
    log,              \* the calls of parse_definition so far, in order
    rb                \* the last call of read_block, as observed

mdictvars == <<pc, is_index, overflow_checks, file, fpos, attrs, v2, encrypt,
               utf16, summary, kis, record_summary, record_index, cache_offset,
               cache, ki, kj, emitted, log, rb>>

NoAttrs == [n \in {} |-> ""]

\* The state of a RawDict and of its conversion into an archive
\* (src/src/raw.rs), and what the tables and the archive builder have
\* received.
VARIABLES
    rpc,             \* the step the driver of the RawDict is about to take
    file_type,       \* RawDict.file_type: "Entry" or "Resource"
    entry_table,     \* the committed rows of table entry, in id order
    token_table,     \* the committed rows of table token, in id order
    entry_cache,     \* RawDict.entry_cache
    token_cache,     \* RawDict.token_cache
    inserted,        \* the calls of insert_entry so far, in order
    last,            \* the last call on the RawDict and what it did
    id,              \* the cursor id of RawDict::to_beluga
    entry_pages,     \* the number of rows each query of the entry loop returned
    token_pages,     \* the number of rows each query of the token loop returned
    passed_entries,  \* the calls of input_entry so far, in order
    passed_tokens,   \* the calls of input_token so far, in order
    saved            \* the archive at dest: "no", "dropped" (the future of
                     \* save was created and dropped unpolled) or "done"

rawvars == <<rpc, file_type, entry_table, token_table, entry_cache, token_cache,
             inserted, last, id, entry_pages, token_pages, passed_entries,
             passed_tokens, saved>>

vars == <<mdictvars, rawvars>>

NoCall == [op |-> "none", pending |-> 0, committed |-> 0, skipped |-> 0,
           transactions |-> 0]

\* no RawDict is open
RawIdle ==
    /\ rpc = "idle"
    /\ file_type = "Entry"
    /\ entry_table = <<>>
    /\ token_table = <<>>
    /\ entry_cache = <<>>
    /\ token_cache = <<>>
    /\ inserted = <<>>
    /\ last = NoCall
    /\ id = 0
    /\ entry_pages = <<>>
    /\ token_pages = <<>>
    /\ passed_entries = <<>>
    /\ passed_tokens = <<>>
    /\ saved = "no"

\* Mdict::new
Init ==
    /\ pc = "header"
    /\ is_index \in BOOLEAN
    /\ overflow_checks \in BOOLEAN
    /\ file = <<>>
    /\ fpos = 0
    /\ attrs = NoAttrs
    /\ v2 = FALSE
    /\ encrypt = 0
    /\ utf16 = FALSE
    /\ summary = Summary0
    /\ kis = <<>>
    /\ record_summary = RecordSummary0
    /\ record_index = <<>>
    /\ cache_offset = 0
    /\ cache = <<>>
    /\ ki = 1
    /\ kj = 1
    /\ emitted = <<>>
    /\ log = <<>>
    /\ rb = NoBlock
    /\ RawIdle

(***************************************************************************)
(* The inputs of the model.                                                *)
(***************************************************************************)
AttrNames == {"GeneratedByEngineVersion", "Encrypted", "Encoding"}

AttrValues ==
    [GeneratedByEngineVersion : {"1.2", "2.0", "x"},
     Encrypted : {"no", "No", "0", "1", "2", "x"},
     Encoding : {"UTF-16", "UTF16", "UTF-8", "GBK", ""}]

AttrBags == {[n \in D |-> f[n]] : f \in AttrValues, D \in SUBSET AttrNames}

Headers ==
    {[xml |-> "ok", attrs |-> a] : a \in AttrBags}
    \cup {[xml |-> x, attrs |-> NoAttrs] : x \in {"truncated", "malformed", "badattr"}}

\* items and keys of the input files
ItemA == <<65>>
ItemB == <<66, 233>>
ItemC == <<67>>
ItemX == <<55296>>
KeyA == <<97>>
KeyB == <<98>>
KeyC == <<99, 233>>

File(kbs, rbs) ==
    [kbs |-> kbs, rbs |-> rbs, kkind |-> "raw", kikind |-> "zlib", claim |-> 0,
     rvar |-> "honest"]

TwoBlocks == <<[kind |-> "zlib", items |-> <<ItemA, ItemB>>],
               [kind |-> "raw", items |-> <<ItemC>>]>>

\* the files of the specification Spec
Files ==
    { \* well formed: two keyword blocks, two record blocks
      File(<< <<<<0, KeyA>>, <<1, KeyB>>>>, <<<<2, KeyC>>>> >>, TwoBlocks),
      \* equal keys, an empty keyword block, an offset past the record stream
      File(<< <<<<0, KeyA>>, <<4, KeyB>>, <<2, KeyA>>>>, <<>>, <<<<1, KeyB>>>> >>,
           TwoBlocks),
      \* keywords at the end of the record stream and past it
      File(<< <<<<0, KeyA>>, <<3, KeyB>>, <<4, KeyC>>, <<2, KeyC>>>> >>, TwoBlocks),
      \* offsets that decrease inside a keyword block
      File(<< <<<<0, KeyA>>, <<2, KeyC>>, <<1, KeyB>>>> >>, TwoBlocks),
      \* a record block stored with LZO
      File(<< <<<<1, KeyB>>, <<0, KeyA>>, <<1, KeyB>>>> >>,
           <<[kind |-> "lzo", items |-> <<ItemA>>],
             [kind |-> "raw", items |-> <<ItemB>>]>>),
      \* an empty record block stored with LZO
      File(<< <<<<0, KeyA>>, <<0, KeyB>>>> >>,
           <<[kind |-> "lzo", items |-> <<>>],
             [kind |-> "raw", items |-> <<ItemA>>]>>),
      \* a record block with compress_kind 3
      File(<< <<<<1, KeyB>>, <<0, KeyA>>>> >>,
           <<[kind |-> "k3", items |-> <<ItemA>>],
             [kind |-> "raw", items |-> <<ItemB>>]>>),
      \* a record block whose zlib stream is corrupt
      File(<< <<<<0, KeyA>>, <<1, KeyB>>>> >>,
           <<[kind |-> "badzlib", items |-> <<ItemA>>],
             [kind |-> "raw", items |-> <<ItemB>>]>>),
      \* a text that is ill formed in the file's encoding
      File(<< <<<<0, KeyA>>, <<1, KeyB>>>> >>,
           <<[kind |-> "raw", items |-> <<ItemX, ItemB>>]>>),
      \* a record index that lists its first block with no stored bytes
      [File(<< <<<<1, KeyB>>, <<0, KeyA>>>> >>,
            <<[kind |-> "raw", items |-> <<ItemA>>],
              [kind |-> "raw", items |-> <<ItemB>>]>>)
         EXCEPT !.rvar = "zero_comp"],
      \* a record index that ends early, and one without blocks
      [File(<< <<<<0, KeyA>>>> >>, TwoBlocks) EXCEPT !.rvar = "short"],
      [File(<< <<<<0, KeyA>>, <<1, KeyB>>>> >>, TwoBlocks) EXCEPT !.rvar = "none"],
      \* a keyword index with compress_kind 3, and one stored raw
      [File(<< <<<<0, KeyA>>>> >>, TwoBlocks) EXCEPT !.kikind = "k3"],
      [File(<< <<<<0, KeyA>>>> >>, TwoBlocks) EXCEPT !.kikind = "raw"],
      \* keyword blocks stored with zlib; an entry count that is too large
      [File(<< <<<<0, KeyA>>, <<1, KeyB>>>> >>, TwoBlocks) EXCEPT !.kkind = "zlib"],
      [File(<< <<<<0, KeyA>>>> >>, TwoBlocks) EXCEPT !.claim = 1],
      \* no keyword at all
      File(<<>>, TwoBlocks) }

(***************************************************************************)
(* Mdict::parse, one action for each of its steps.                         *)
(***************************************************************************)
\* the first keyword block from i on that holds a keyword
RECURSIVE SkipEmpty(_, _)
SkipEmpty(ks, i) ==
    IF i > Len(ks) \/ Len(ks[i].block) > 0 THEN i ELSE SkipEmpty(ks, i + 1)

\* a driver that leaves a keyword block after its first keyword
AdvanceLeavesBlock(ks, i, j) == <<SkipEmpty(ks, i + 1), 1>>

\* the keyword after keyword j of block i in the loops of parse
Advance(ks, i, j) ==
    IF j < Len(ks[i].block) THEN <<i, j + 1>> ELSE <<SkipEmpty(ks, i + 1), 1>>

\* the fields parse_definition reads
Fields ==
    [record_index |-> record_index, cache_offset |-> cache_offset, cache |-> cache,
     file |-> file, is_index |-> is_index, utf16 |-> utf16,
     overflow_checks |-> overflow_checks]

\* a seek or read of the file fails before the definitions are streamed:
\* the error is returned or unwrapped, and the caller unwraps it
IoFailure ==
    /\ pc \in {"header", "summary", "keyword_index", "keyword_block",
               "record_summary", "record_index"}
    /\ pc' = "panicked"
    /\ UNCHANGED <<is_index, overflow_checks, file, fpos, attrs, v2, encrypt, utf16,
                   summary, kis, record_summary, record_index, cache_offset, cache,
                   ki, kj, emitted, log, rb>>
    /\ UNCHANGED rawvars

\* seek(0); parse_header().unwrap(); skip the checksum
ParseHeader ==
    /\ pc = "header"
    /\ \E h \in Headers :
         \E r \in {parse_header(h, [attrs |-> attrs, v2 |-> v2, encrypt |-> encrypt,
                                     utf16 |-> utf16])} :
             /\ attrs' = r.attrs
             /\ v2' = r.v2
             /\ encrypt' = r.encrypt
             /\ utf16' = r.utf16
             /\ pc' = IF r.k = "ok" THEN "summary" ELSE "panicked"
             /\ fpos' = IF r.k = "ok" THEN HdrEnd ELSE HdrLen
    /\ UNCHANGED <<is_index, overflow_checks, file, summary, kis, record_summary,
                   record_index, cache_offset, cache, ki, kj, emitted, log, rb>>
    /\ UNCHANGED rawvars

\* parse_summary().unwrap(); skip the checksum.  The bytes after the header
\* are fixed here, where they are first read.
ParseSummary ==
    /\ pc = "summary"
    /\ \E d \in Files :
         \E f \in {BuildFile(d, v2, utf16, encrypt, is_index)} :
         \E r \in {parse_summary(f, fpos, v2)} :
             /\ file' = f
             /\ summary' = r.summary
             /\ fpos' = r.pos + 4
             /\ pc' = "keyword_index"
    /\ UNCHANGED <<is_index, overflow_checks, attrs, v2, encrypt, utf16, kis,
                   record_summary, record_index, cache_offset, cache, ki, kj,
                   emitted, log, rb>>
    /\ UNCHANGED rawvars

\* parse_keyword_index().unwrap()
ParseKeywordIndex ==
    /\ pc = "keyword_index"
    /\ \E r \in {parse_keyword_index(file, fpos, summary, v2, utf16, encrypt)} :
           /\ kis' = r.kis
           /\ fpos' = r.pos
           /\ rb' = r.obs
           /\ pc' = IF r.k = "ok" THEN "keyword_block" ELSE "panicked"
    /\ UNCHANGED <<is_index, overflow_checks, file, attrs, v2, encrypt, utf16,
                   summary, record_summary, record_index, cache_offset, cache,
                   ki, kj, emitted, log>>
    /\ UNCHANGED rawvars

\* parse_keyword_block().unwrap()
ParseKeywordBlock ==
    /\ pc = "keyword_block"
    /\ \E r \in {parse_keyword_block(file, fpos, summary, kis, v2, utf16,
                                      overflow_checks)} :
           /\ kis' = r.kis
           /\ fpos' = r.pos
           /\ pc' = IF r.k = "ok" THEN "record_summary" ELSE "panicked"
    /\ UNCHANGED <<is_index, overflow_checks, file, attrs, v2, encrypt, utf16,
                   summary, record_summary, record_index, cache_offset, cache,
                   ki, kj, emitted, log, rb>>
    /\ UNCHANGED rawvars

\* parse_record_summary().unwrap()
ParseRecordSummary ==
    /\ pc = "record_summary"
    /\ \E r \in {parse_record_summary(file, fpos, v2)} :
           /\ record_summary' = r.record_summary
           /\ fpos' = r.pos
           /\ pc' = "record_index"
    /\ UNCHANGED <<is_index, overflow_checks, file, attrs, v2, encrypt, utf16,
                   summary, kis, record_index, cache_offset, cache, ki, kj,
                   emitted, log, rb>>
    /\ UNCHANGED rawvars

\* a driver that enters the loops whatever parse_record_index returned
ParseRecordIndexGoesOn ==
    /\ pc = "record_index"
    /\ \E r \in {parse_record_index(file, fpos, record_summary, v2)} :
           /\ record_index' = r.record_index
           /\ fpos' = r.pos
           /\ pc' = "definitions"
    /\ ki' = SkipEmpty(kis, 1)
    /\ kj' = 1
    /\ UNCHANGED <<is_index, overflow_checks, file, attrs, v2, encrypt, utf16,
                   summary, kis, record_summary, cache_offset, cache, emitted,
                   log, rb>>
    /\ UNCHANGED rawvars

\* parse_record_index().unwrap(); kis.clone() and the entry of the loops
ParseRecordIndex ==
    /\ pc = "record_index"
    /\ \E r \in {parse_record_index(file, fpos, record_summary, v2)} :
           /\ record_index' = r.record_index
           /\ fpos' = r.pos
           /\ pc' = IF r.k = "ok" THEN "definitions" ELSE "panicked"
    /\ ki' = SkipEmpty(kis, 1)
    /\ kj' = 1
    /\ UNCHANGED <<is_index, overflow_checks, file, attrs, v2, encrypt, utf16,
                   summary, kis, record_summary, cache_offset, cache, emitted,
                   log, rb>>
    /\ UNCHANGED rawvars

\* whether parse_definition(kw) goes to the file
Misses(kw) ==
    /\ Len(record_index) > 0
    /\ InBounds(record_index, kw.offset)
    /\ LET li == SearchLoop(record_index, kw.offset, 0, Len(record_index) - 1)
       IN  /\ li + 1 < Len(record_index)
           /\ ~CacheHit(cache_offset, cache, record_index[li + 1][1])

\* one turn of the inner loop of parse: parse_definition(kw), then cb or
\* eprintln
ParseDefinition ==
    /\ pc = "definitions"
    /\ ki <= Len(kis)
    /\ LET kw == kis[ki].block[kj]
       IN  \E io \in (IF Misses(kw) THEN {"ok", "seek", "read"} ELSE {"ok"}) :
             \E r \in {parse_definition(kw, Fields, io)} :
                 /\ cache_offset' = r.cache_offset
                 /\ cache' = r.cache
                 /\ rb' = IF r.obs = NoBlock THEN rb ELSE r.obs
                 /\ log' = Append(log, [ki |-> ki, kj |-> kj, kw |-> kw, io |-> io,
                                        k |-> r.k, v |-> r.v, sel |-> r.sel,
                                        read |-> r.read,
                                        cache_offset |-> cache_offset,
                                        cache |-> cache])
                 /\ emitted' = IF r.k = "ok" THEN Append(emitted, r.v) ELSE emitted
                 /\ IF r.k = "panic"
                    THEN pc' = "panicked" /\ UNCHANGED <<ki, kj>>
                    ELSE /\ pc' = pc
                         /\ \E nx \in {Advance(kis, ki, kj)} :
                              ki' = nx[1] /\ kj' = nx[2]
    /\ UNCHANGED <<is_index, overflow_checks, file, fpos, attrs, v2, encrypt, utf16,
                   summary, kis, record_summary, record_index>>
    /\ UNCHANGED rawvars

\* the loops are over: parse returns Ok(())
Finish ==
    /\ pc = "definitions"
    /\ ki > Len(kis)
    /\ pc' = "done"
    /\ UNCHANGED <<is_index, overflow_checks, file, fpos, attrs, v2, encrypt, utf16,
                   summary, kis, record_summary, record_index, cache_offset, cache,
                   ki, kj, emitted, log, rb>>
    /\ UNCHANGED rawvars

Next ==
    \/ IoFailure
    \/ ParseHeader
    \/ ParseSummary
    \/ ParseKeywordIndex
    \/ ParseKeywordBlock
    \/ ParseRecordSummary
    \/ ParseRecordIndex
    \/ ParseDefinition
    \/ Finish

Spec == Init /\ [][Next]_vars

(***************************************************************************)
(* The resolver on generated files: every file of up to MaxRB record       *)
(* blocks and up to MaxKw keywords, in one or two keyword blocks, each     *)
(* keyword pointing at any item, at the end of the record stream or past   *)
(* it.  SpecResolve starts where the index parsers have returned.  A        *)
(* Resource (.mdd) file is read with UTF-16 keys, as its header, which      *)
(* carries no Encoding attribute, makes parse_header decide.                *)
(***************************************************************************)
ItemPool == <<ItemA, ItemB, ItemC>>

PoolItem(j) == ItemPool[((j - 1) % Len(ItemPool)) + 1]

\* n record blocks: the first holds two items, the others one; they are
\* stored with zlib and raw in turn
GenRecords(n) ==
    [j \in 1..n |->
       [kind |-> IF j % 2 = 1 THEN "zlib" ELSE "raw",
        items |-> IF j = 1 THEN <<PoolItem(1), PoolItem(2)>> ELSE <<PoolItem(j + 1)>>]]

GenKey(item) == IF item % 2 = 0 THEN KeyA ELSE KeyB

\* the sequences of up to n keywords over the items 0..top
RECURSIVE GenKeywords(_, _)
GenKeywords(n, top) ==
    IF n = 0 THEN {<<>>}
    ELSE LET shorter == GenKeywords(n - 1, top)
         IN  shorter \cup {Append(q, <<i, GenKey(i)>>) : q \in shorter, i \in 0..top}

GenFiles ==
    UNION { UNION { { [File(<<SubSeq(q, 1, cut), SubSeq(q, cut + 1, Len(q))>>, GenRecords(n))
                 EXCEPT !.rvar = var]
                : cut \in (IF q = <<>> THEN {0} ELSE 1..Len(q)) }
            : q \in GenKeywords(MaxKw, n + 2), var \in {"honest", "zero_decomp"} }
          : n \in 1..MaxRB }

\* what the index parsers leave, given the results s, kx, kb, rs, ri of
\* parse_summary .. parse_record_index
Loaded(s, kx, kb, rs, ri) ==
    [k |-> IF kx.k = "ok" /\ kb.k = "ok" /\ ri.k = "ok" THEN "ok" ELSE "panic",
     summary |-> s.summary, kis |-> kb.kis, record_summary |-> rs.record_summary,
     record_index |-> ri.record_index, fpos |-> ri.pos, rb |-> kx.obs]

\* parse_record_index, after the parsers before it
LoadRecordIndex(f, pv2, s, kx, kb, rs) ==
    Loaded(s, kx, kb, rs, parse_record_index(f, rs.pos, rs.record_summary, pv2))

\* parse_record_summary, after the parsers before it
LoadRecordSummary(f, pv2, s, kx, kb) ==
    LoadRecordIndex(f, pv2, s, kx, kb, parse_record_summary(f, kb.pos, pv2))

\* parse_keyword_block, after the parsers before it
LoadKeywordBlock(f, pv2, putf16, checks, s, kx) ==
    LoadRecordSummary(f, pv2, s, kx,
                      parse_keyword_block(f, kx.pos, s.summary, kx.kis, pv2, putf16,
                                          checks))

\* parse_keyword_index, after parse_summary
LoadKeywordIndex(f, pv2, putf16, penc, checks, s) ==
    LoadKeywordBlock(f, pv2, putf16, checks, s,
                     parse_keyword_index(f, s.pos + 4, s.summary, pv2, putf16, penc))

\* parse_summary through parse_record_index on the file bytes f
LoadFile(f, pv2, putf16, penc, checks) ==
    LoadKeywordIndex(f, pv2, putf16, penc, checks, parse_summary(f, HdrEnd, pv2))

\* Mdict::new on a file whose header reads version 2.0, not encrypted
InitResolve ==
    /\ pc = "load"
    /\ is_index \in BOOLEAN
    /\ overflow_checks \in BOOLEAN
    /\ utf16 \in (IF is_index THEN BOOLEAN ELSE {TRUE})
    /\ v2 = TRUE
    /\ encrypt = 0
    /\ attrs = [GeneratedByEngineVersion |-> "2.0", Encrypted |-> "no",
                Encoding |-> IF utf16 THEN "" ELSE "UTF-8"]
    /\ file = <<>>
    /\ fpos = HdrEnd
    /\ summary = Summary0
    /\ kis = <<>>
    /\ record_summary = RecordSummary0
    /\ record_index = <<>>
    /\ cache_offset = 0
    /\ cache = <<>>
    /\ ki = 1
    /\ kj = 1
    /\ emitted = <<>>
    /\ log = <<>>
    /\ rb = NoBlock
    /\ RawIdle

\* parse_summary through parse_record_index, in one step
LoadGenerated ==
    /\ pc = "load"
    /\ \E d \in GenFiles \cup Files :
         \E f \in {BuildFile(d, v2, utf16, encrypt, is_index)} :
         \E l \in {LoadFile(f, v2, utf16, encrypt, overflow_checks)} :
             /\ file' = f
             /\ fpos' = l.fpos
             /\ summary' = l.summary
             /\ kis' = l.kis
             /\ record_summary' = l.record_summary
             /\ record_index' = l.record_index
             /\ rb' = l.rb
             /\ ki' = SkipEmpty(l.kis, 1)
             /\ pc' = IF l.k = "ok" THEN "definitions" ELSE "panicked"
    /\ kj' = 1
    /\ UNCHANGED <<is_index, overflow_checks, attrs, v2, encrypt, utf16,
                   cache_offset, cache, emitted, log>>
    /\ UNCHANGED rawvars

NextResolve ==
    \/ LoadGenerated
    \/ ParseDefinition
    \/ Finish

SpecResolve == InitResolve /\ [][NextResolve]_vars

\* the states in which SpecResolve starts are those Spec reaches
LoadedAsParsed ==
    (pc = "definitions" /\ log = <<>>) =>
        LET l == LoadFile(file, v2, utf16, encrypt, overflow_checks)
        IN  /\ l.k = "ok"
            /\ <<summary, kis, record_summary, record_index, fpos, rb>>
               = <<l.summary, l.kis, l.record_summary, l.record_index, l.fpos, l.rb>>
            /\ <<ki, kj>> = <<SkipEmpty(kis, 1), 1>>

(***************************************************************************)
(* RawDict (src/src/raw.rs).  A name stands for a String, names that       *)
(* differ for Strings that differ; an Option is a sequence: None is <<>>,  *)
(* Some(v) is <<v>>.  A table is the sequence of its rows in id order.     *)
(***************************************************************************)
\* RawDict.cache_size, as new and from set it
cache_size == 200

\* the page size of RawDict::to_beluga
limit == 100

\* the most calls of insert_entry on a RawDict that is filled
MaxInserts == 201

\* the most rows of the entry table that is converted
MaxRows == 201

\* the most calls of insert_entry and of insert_token on a RawDict whose
\* sink may fail
MaxSinkCalls == 3

None == <<>>

Some(v) == <<v>>

\* the Entry that insert_entry pushes
Entry(name, value, ft) ==
    IF ft = "Entry"
    THEN [name |-> name, text |-> Some(from_utf8(value).v), binary |-> None]
    ELSE [name |-> name, text |-> None, binary |-> Some(value)]

\* the row that INSERT INTO entry (name, field) makes of an Entry
Row(n, wd, field) ==
    [id |-> n, name |-> wd.name,
     text |-> IF field = "text" THEN wd.text ELSE None,
     binary |-> IF field = "binary" THEN wd.binary ELSE None]

\* serde_json::to_string of a list of strings, and serde_json::from_slice
to_json(entries) == [json |-> entries]

from_json(j) == IF "json" \in DOMAIN j THEN Ok(j.json) ELSE Panic("invalid JSON")

\* Beluga::parse_token_entries (beluga_core): the entries a token value
\* lists; in the model a value lists itself
parse_token_entries(value) == <<value>>

\* the id AUTOINCREMENT gives the next row of a table
NextId(table) == IF table = <<>> THEN 1 ELSE table[Len(table)].id + 1

\* the records of a cache whose INSERT succeeds, in order: those whose name
\* (UNIQUE) is neither in the table nor earlier in the cache
Accepted(table, pend) ==
    LET tn == {table[r].name : r \in DOMAIN table}
        cn == {pend[i].name : i \in DOMAIN pend}
    IN  IF Cardinality(cn) = Len(pend) /\ tn \cap cn = {}
        THEN pend
        ELSE LET ix == [i \in DOMAIN pend |-> [i |-> i, wd |-> pend[i]]]
                 acc == SelectSeq(ix, LAMBDA x :
                                      /\ x.wd.name \notin tn
                                      /\ \A j \in 1..(x.i - 1) :
                                           pend[j].name # x.wd.name)
             IN  [k \in DOMAIN acc |-> acc[k].wd]

\* RawDict::flush_entry_cache with the outcome io of the sink ("ok", or
\* "commit" when the transaction cannot be opened or committed): the
\* Result, the table and the cache as the call leaves them, and what the
\* call did
flush_entry_cache(table, pend, ft, io) ==
    LET field == IF ft = "Entry" THEN "text" ELSE "binary"
        acc == Accepted(table, pend)
        first == NextId(table)
        rows == [k \in DOMAIN acc |-> Row(first + (k - 1), acc[k], field)]
    IN  IF io = "commit"
        THEN [k |-> "panic", table |-> table, cache |-> pend,
              pending |-> Len(pend), committed |-> 0,
              skipped |-> Len(pend) - Len(acc), transactions |-> 0]
        ELSE [k |-> "ok", table |-> table \o rows, cache |-> <<>>,
              pending |-> Len(pend), committed |-> Len(rows),
              skipped |-> Len(pend) - Len(acc), transactions |-> 1]

\* RawDict::flush_token_cache
flush_token_cache(table, pend, io) ==
    LET acc == Accepted(table, pend)
        first == NextId(table)
        rows == [k \in DOMAIN pend |->
                   [id |-> first + (k - 1), name |-> pend[k].name,
                    entries |-> to_json(pend[k].entries)]]
    IN  IF io = "commit" \/ Len(acc) # Len(pend)
        THEN [k |-> "panic", table |-> table, cache |-> pend,
              pending |-> Len(pend), committed |-> 0, skipped |-> 0,
              transactions |-> 0]
        ELSE [k |-> "ok", table |-> table \o rows, cache |-> <<>>,
              pending |-> Len(pend), committed |-> Len(rows), skipped |-> 0,
              transactions |-> 1]

\* a test of insert_entry that lets the cache reach cache_size + 1 records
cache_overfull(n) == n > cache_size

\* the test of insert_entry and insert_token: the cache is flushed
cache_full(n) == n >= cache_size

\* RawDict::insert_entry
insert_entry(table, pend, ft, name, value, io) ==
    IF ft = "Entry" /\ from_utf8(value).k # "ok"
    THEN [k |-> "panic", table |-> table, cache |-> pend, pending |-> Len(pend),
          committed |-> 0, skipped |-> 0, transactions |-> 0]
    ELSE LET cache1 == Append(pend, Entry(name, value, ft))
         IN  IF cache_full(Len(cache1))
             THEN flush_entry_cache(table, cache1, ft, io)
             ELSE [k |-> "ok", table |-> table, cache |-> cache1,
                   pending |-> Len(cache1), committed |-> 0, skipped |-> 0,
                   transactions |-> 0]

\* RawDict::insert_token
insert_token(table, pend, name, value, io) ==
    LET cache1 == Append(pend, [name |-> name,
                                 entries |-> parse_token_entries(value)])
    IN  IF cache_full(Len(cache1))
        THEN flush_token_cache(table, cache1, io)
        ELSE [k |-> "ok", table |-> table, cache |-> cache1,
              pending |-> Len(cache1), committed |-> 0, skipped |-> 0,
              transactions |-> 0]

\* what a call leaves in `last`
Call(op, r) ==
    [op |-> op, pending |-> r.pending, committed |-> r.committed,
     skipped |-> r.skipped, transactions |-> r.transactions]

\* no Mdict is open
MdictIdle ==
    /\ pc = "idle"
    /\ is_index = TRUE
    /\ overflow_checks = TRUE
    /\ file = <<>>
    /\ fpos = 0
    /\ attrs = NoAttrs
    /\ v2 = FALSE
    /\ encrypt = 0
    /\ utf16 = FALSE
    /\ summary = Summary0
    /\ kis = <<>>
    /\ record_summary = RecordSummary0
    /\ record_index = <<>>
    /\ cache_offset = 0
    /\ cache = <<>>
    /\ ki = 1
    /\ kj = 1
    /\ emitted = <<>>
    /\ log = <<>>
    /\ rb = NoBlock

\* a call insert_entry(name, value) with name and value from the given
\* sets, the sink behaving as one of ios if the call flushes
InsertEntryFrom(names, values, ios) ==
    /\ rpc = "open"
    /\ \E name \in names, value \in values, io \in ios :
         \E r \in {insert_entry(entry_table, entry_cache, file_type, name, value,
                                io)} :
             /\ entry_table' = r.table
             /\ entry_cache' = r.cache
             /\ inserted' = Append(inserted, <<name, value>>)
             /\ last' = Call("insert_entry", r)
             /\ rpc' = IF r.k = "ok" THEN "open" ELSE "panicked"
    /\ UNCHANGED <<file_type, token_table, token_cache, id, entry_pages,
                   token_pages, passed_entries, passed_tokens, saved>>
    /\ UNCHANGED mdictvars

\* a call flush_entry_cache()
FlushEntryCacheWith(ios) ==
    /\ rpc = "open"
    /\ \E io \in ios :
         \E r \in {flush_entry_cache(entry_table, entry_cache, file_type, io)} :
             /\ entry_table' = r.table
             /\ entry_cache' = r.cache
             /\ last' = Call("flush_entry_cache", r)
             /\ rpc' = IF r.k = "ok" THEN "open" ELSE "panicked"
    /\ UNCHANGED <<file_type, token_table, token_cache, inserted, id, entry_pages,
                   token_pages, passed_entries, passed_tokens, saved>>
    /\ UNCHANGED mdictvars

\* a call insert_token(name, value)
InsertTokenFrom(names, values, ios) ==
    /\ rpc = "open"
    /\ \E name \in names, value \in values, io \in ios :
         \E r \in {insert_token(token_table, token_cache, name, value, io)} :
             /\ token_table' = r.table
             /\ token_cache' = r.cache
             /\ last' = Call("insert_token", r)
             /\ rpc' = IF r.k = "ok" THEN "open" ELSE "panicked"
    /\ UNCHANGED <<file_type, entry_table, entry_cache, inserted, id, entry_pages,
                   token_pages, passed_entries, passed_tokens, saved>>
    /\ UNCHANGED mdictvars

\* a call flush_token_cache()
FlushTokenCacheWith(ios) ==
    /\ rpc = "open"
    /\ \E io \in ios :
         \E r \in {flush_token_cache(token_table, token_cache, io)} :
             /\ token_table' = r.table
             /\ token_cache' = r.cache
             /\ last' = Call("flush_token_cache", r)
             /\ rpc' = IF r.k = "ok" THEN "open" ELSE "panicked"
    /\ UNCHANGED <<file_type, entry_table, entry_cache, inserted, id, entry_pages,
                   token_pages, passed_entries, passed_tokens, saved>>
    /\ UNCHANGED mdictvars

\* RawDict::new
InitRaw ==
    /\ MdictIdle
    /\ rpc = "open"
    /\ file_type \in {"Entry", "Resource"}
    /\ entry_table = <<>>
    /\ token_table = <<>>
    /\ entry_cache = <<>>
    /\ token_cache = <<>>
    /\ inserted = <<>>
    /\ last = NoCall
    /\ id = 0
    /\ entry_pages = <<>>
    /\ token_pages = <<>>
    /\ passed_entries = <<>>
    /\ passed_tokens = <<>>
    /\ saved = "no"

(***************************************************************************)
(* A RawDict that is filled with up to MaxInserts entries of pairwise      *)
(* distinct names, flush_entry_cache() being called at any time.           *)
(***************************************************************************)
\* the value of the entry of name n
ValueOf(n) == IF n % 3 = 0 THEN <<66, 195, 169>> ELSE <<65 + (n % 3)>>

InsertFresh ==
    /\ Len(inserted) < MaxInserts
    /\ InsertEntryFrom({Len(inserted) + 1}, {ValueOf(Len(inserted) + 1)}, {"ok"})

FlushEntries == FlushEntryCacheWith({"ok"})

NextRawFill ==
    \/ InsertFresh
    \/ FlushEntries

SpecRawFill == InitRaw /\ [][NextRawFill]_vars

(***************************************************************************)
(* A RawDict that receives up to MaxSinkCalls entries and tokens whose     *)
(* names may repeat and whose values may be ill-formed text, on a sink     *)
(* whose transactions may fail.                                            *)
(***************************************************************************)
NamePool == {1, 2}

ValuePool == {<<65>>, <<255>>}

SinkOutcomes == {"ok", "commit"}

InsertAny ==
    /\ Len(inserted) < MaxSinkCalls
    /\ InsertEntryFrom(NamePool, ValuePool, SinkOutcomes)

InsertTokenAny ==
    /\ Len(token_table) + Len(token_cache) < MaxSinkCalls
    /\ InsertTokenFrom(NamePool, {<<65>>}, SinkOutcomes)

FlushEntriesAny == FlushEntryCacheWith(SinkOutcomes)

FlushTokensAny == FlushTokenCacheWith(SinkOutcomes)

NextRawSink ==
    \/ InsertAny
    \/ InsertTokenAny
    \/ FlushEntriesAny
    \/ FlushTokensAny

SpecRawSink == InitRaw /\ [][NextRawSink]_vars

(***************************************************************************)
(* RawDict::to_beluga on the tables of a file that a RawDict of the same   *)
(* file type has written.                                                  *)
(***************************************************************************)
\* an entry table of n rows, ids without gaps or with a gap after every row
GenEntryTable(n, gaps, ft) ==
    [i \in 1..n |-> Row(IF gaps THEN 2 * i ELSE i, Entry(i, ValueOf(i), ft),
                        IF ft = "Entry" THEN "text" ELSE "binary")]

GenTokenTable(n, gaps) ==
    [i \in 1..n |-> [id |-> IF gaps THEN 2 * i ELSE i, name |-> i,
                     entries |-> to_json(parse_token_entries(ValueOf(i)))]]

\* the numbers of rows of the token table
TokenCounts == {0, 1, limit - 1, limit, limit + 1}

\* SELECT * FROM table WHERE id > cursor ORDER BY id ASC LIMIT lim, with a
\* WHERE clause that returns the row at the cursor again
QueryFromCursor(table, cursor, lim) ==
    LET after == SelectSeq(table, LAMBDA r : r.id >= cursor)
    IN  SubSeq(after, 1, Min(lim, Len(after)))

\* SELECT * FROM table WHERE id > cursor ORDER BY id ASC LIMIT lim
Query(table, cursor, lim) ==
    LET after == SelectSeq(table, LAMBDA r : r.id > cursor)
    IN  SubSeq(after, 1, Min(lim, Len(after)))

\* the column of a row that to_beluga unwraps
ValueColumn(row, ft) == IF ft = "Entry" THEN row.text ELSE row.binary

\* the value to_beluga passes for a row
EntryValue(row, ft) ==
    IF ft = "Entry" THEN as_bytes(row.text[1]) ELSE row.binary[1]

\* RawDict::from
InitRawRead ==
    /\ MdictIdle
    /\ rpc = "entries"
    /\ file_type \in {"Entry", "Resource"}
    /\ \E n \in 0..MaxRows, gaps \in BOOLEAN, t \in TokenCounts :
         /\ entry_table = GenEntryTable(n, gaps, file_type)
         /\ token_table = GenTokenTable(t, gaps)
    /\ entry_cache = <<>>
    /\ token_cache = <<>>
    /\ inserted = <<>>
    /\ last = NoCall
    /\ id = 0
    /\ entry_pages = <<>>
    /\ token_pages = <<>>
    /\ passed_entries = <<>>
    /\ passed_tokens = <<>>
    /\ saved = "no"

\* one turn of the entry loop: the query, input_entry on its rows, the test
\* count < limit
EntryPage ==
    /\ rpc = "entries"
    /\ \E rows \in {Query(entry_table, id, limit)} :
         LET bad == {i \in DOMAIN rows : ValueColumn(rows[i], file_type) = None}
             n == IF bad = {} THEN Len(rows)
                  ELSE (CHOOSE i \in bad : \A j \in bad : i <= j) - 1
         IN  /\ id' = IF rows = <<>> THEN id ELSE rows[Len(rows)].id
             /\ entry_pages' = Append(entry_pages, Len(rows))
             /\ passed_entries' = passed_entries
                    \o [i \in 1..n |-> <<rows[i].name, EntryValue(rows[i], file_type)>>]
             /\ rpc' = IF bad # {} THEN "panicked"
                       ELSE IF Len(rows) < limit THEN "tokens" ELSE "entries"
    /\ UNCHANGED <<file_type, entry_table, token_table, entry_cache, token_cache,
                   inserted, last, token_pages, passed_tokens, saved>>
    /\ UNCHANGED mdictvars

\* total_tokens() and the test token_num > 0
TokenCount ==
    /\ rpc = "tokens"
    /\ IF Len(token_table) > 0
       THEN id' = 0 /\ rpc' = "token_pages"
       ELSE id' = id /\ rpc' = "save"
    /\ UNCHANGED <<file_type, entry_table, token_table, entry_cache, token_cache,
                   inserted, last, entry_pages, token_pages, passed_entries,
                   passed_tokens, saved>>
    /\ UNCHANGED mdictvars

\* one turn of the token loop
TokenPage ==
    /\ rpc = "token_pages"
    /\ \E rows \in {Query(token_table, id, limit)} :
         LET bad == {i \in DOMAIN rows : from_json(rows[i].entries).k # "ok"}
             n == IF bad = {} THEN Len(rows) ELSE 0
         IN  /\ id' = IF rows = <<>> THEN id ELSE rows[Len(rows)].id
             /\ token_pages' = Append(token_pages, Len(rows))
             /\ passed_tokens' = passed_tokens
                    \o [i \in 1..n |-> <<rows[i].name, from_json(rows[i].entries).v>>]
             /\ rpc' = IF bad # {} THEN "panicked"
                       ELSE IF Len(rows) < limit THEN "save" ELSE "token_pages"
    /\ UNCHANGED <<file_type, entry_table, token_table, entry_cache, token_cache,
                   inserted, last, entry_pages, passed_entries, saved>>
    /\ UNCHANGED mdictvars

\* dict.save(dest); and the return of to_beluga: the future that save
\* returns is dropped without being awaited, so its body never runs
SaveAndReturn ==
    /\ rpc = "save"
    /\ saved' = "dropped"
    /\ rpc' = "returned"
    /\ UNCHANGED <<file_type, entry_table, token_table, entry_cache, token_cache,
                   inserted, last, id, entry_pages, token_pages, passed_entries,
                   passed_tokens>>
    /\ UNCHANGED mdictvars

NextRawRead ==
    \/ EntryPage
    \/ TokenCount
    \/ TokenPage
    \/ SaveAndReturn

SpecRawRead == InitRawRead /\ [][NextRawRead]_vars

\* to_beluga runs on: no step of it waits for anything but the database
SpecRawReadRuns == SpecRawRead /\ WF_vars(NextRawRead)

(***************************************************************************)
(* Properties.                                                             *)
(***************************************************************************)
\* the stored keyword sequence: the keywords of every block, block by block
FlatKeywords(ks) == Concat([b \in 1..Len(ks) |-> ks[b].block])

\* the pairs that the calls of a log returned with Ok, in the order of the calls
RECURSIVE Emissions(_)
Emissions(l) ==
    IF l = <<>> THEN <<>>
    ELSE (IF Head(l).k = "ok" THEN <<Head(l).v>> ELSE <<>>) \o Emissions(Tail(l))

\* the cache as call number i of the log left it
CacheAfter(i) == IF i < Len(log) THEN log[i + 1].cache ELSE cache

CacheOffsetAfter(i) == IF i < Len(log) THEN log[i + 1].cache_offset ELSE cache_offset

\* the decompressed column of a record index is strictly increasing
DecompIncreasing(ri) == \A j \in 1..(Len(ri) - 1) : ri[j][2] < ri[j + 1][2]

\* C1: parse calls the resolver on the stored keywords in stored order
\* (keyword blocks in the order of kis, keywords in the order of their
\* block), on each keyword at most once, and hands the sink exactly the
\* pairs of the calls that succeeded, in the order of the calls: no
\* reordering, no deduplication; when parse returns, every keyword was tried.
C1_EmissionOrder ==
    LET flat == FlatKeywords(kis)
    IN  /\ Len(log) <= Len(flat)
        /\ \A i \in 1..Len(log) : log[i].kw = flat[i]
        /\ emitted = Emissions(log)
        /\ \A i \in 1..Len(emitted) :
             \E f \in 1..Len(flat) : emitted[i][1] = flat[f].key
        /\ (pc = "done") => (Len(log) = Len(flat))

\* parse has returned from a file with keywords in two blocks, where a
\* keyword that failed precedes one that was emitted and one key was
\* emitted twice
C1_Witness ==
    /\ pc = "done"
    /\ Cardinality({b \in 1..Len(kis) : kis[b].block # <<>>}) >= 2
    /\ \E i, j \in 1..Len(log) : i < j /\ log[i].k = "err" /\ log[j].k = "ok"
    /\ \E i, j \in 1..Len(emitted) : i < j /\ emitted[i][1] = emitted[j][1]

\* C2: every call of parse_definition returns what the same call returns on
\* an Mdict whose cache is empty, that is, when the record block is read
\* from the file and decoded again.
C2_CacheTransparent ==
    \A i \in 1..Len(log) :
        LET e == log[i]
            r == parse_definition(e.kw, [Fields EXCEPT !.cache_offset = 0,
                                                       !.cache = <<>>], "ok")
        IN  (e.io = "ok") => (e.k = r.k /\ e.v = r.v)

\* C3: after parse_keyword_block, in every keyword block the keyword at
\* each position but the last has size = offset of the next keyword minus
\* its own offset, and the last keyword has size 0.
C3_KeywordSizes ==
    (pc \in {"record_summary", "record_index", "definitions", "done"}) =>
        \A b \in 1..Len(kis) :
            LET block == kis[b].block
            IN  \A i \in 1..Len(block) :
                    block[i].size = IF i < Len(block)
                                    THEN block[i + 1].offset - block[i].offset
                                    ELSE 0

\* C4: on a Resource (.mdd) file a successful parse_definition returns, for
\* a keyword of size s > 0, the s bytes of the decoded record block from
\* position record_offset - decomp_offset, and for a keyword of size 0 the
\* bytes from that position to the end of the block; and the keyword has
\* size 0 only if it is the last of its keyword block.
C4_ResourcePayload ==
    (~is_index) =>
        \A i \in 1..Len(log) :
            LET e == log[i]
                block == CacheAfter(i)
                pos == e.kw.offset - e.sel.decomp_offset
            IN  (e.k = "ok") =>
                    /\ (e.kw.size > 0) =>
                           (e.v[2] = SubSeq(block, pos + 1, pos + e.kw.size))
                    /\ (e.kw.size = 0) =>
                           /\ e.v[2] = SubSeq(block, pos + 1, Len(block))
                           /\ e.kj = Len(kis[e.ki].block)

\* C5: on a record index whose decompressed column is strictly increasing,
\* for a keyword offset within its bounds, the search selects the one block
\* j with record_index[j].decomp_cursor <= offset <
\* record_index[j+1].decomp_cursor (so an offset equal to a block's start
\* resolves to that block), with comp_offset, comp_size and decomp_size
\* taken from the pairs j and j+1.
C5_SearchSelectsBlock ==
    \A i \in 1..Len(log) :
        LET e == log[i]
            off == e.kw.offset
            n == Len(record_index)
            j == e.sel.li
        IN  (/\ n > 0
             /\ DecompIncreasing(record_index)
             /\ record_index[1][2] <= off
             /\ off < record_index[n][2])
            => /\ j \in 0..(n - 2)
               /\ record_index[j + 1][2] <= off
               /\ off < record_index[j + 2][2]
               /\ \A j2 \in 0..(n - 2) :
                    (record_index[j2 + 1][2] <= off /\ off < record_index[j2 + 2][2])
                        => (j2 = j)
               /\ e.sel.comp_offset = record_index[j + 1][1]
               /\ e.sel.decomp_offset = record_index[j + 1][2]
               /\ e.sel.comp_size = record_index[j + 2][1] - record_index[j + 1][1]
               /\ e.sel.decomp_size = record_index[j + 2][2] - record_index[j + 1][2]

\* a keyword whose offset is the start cursor of the second of three record
\* blocks was resolved to that block
C5_Witness ==
    /\ Len(record_index) >= 4
    /\ DecompIncreasing(record_index)
    /\ \E i \in 1..Len(log) :
         /\ log[i].kw.offset = record_index[2][2]
         /\ log[i].sel.li = 1
         /\ log[i].k = "ok"

\* C6: for a keyword whose record_offset is below record_index[0]'s
\* decompressed cursor, or at or above the last pair's (the end-of-stream
\* sentinel), parse_definition returns the out-of-range error, does not
\* read the file and leaves the cache as it was.
C6_OutOfRangeRejected ==
    \A i \in 1..Len(log) :
        LET e == log[i]
            n == Len(record_index)
        IN  (n > 0 /\ (\/ e.kw.offset < record_index[1][2]
                       \/ e.kw.offset >= record_index[n][2]))
            => /\ e.k = "err"
               /\ e.v = "Out of index of record"
               /\ ~e.read
               /\ CacheAfter(i) = e.cache
               /\ CacheOffsetAfter(i) = e.cache_offset

\* C7: a call of read_block on a block whose compress_kind is not 0, 1 or 2
\* returns an error without decrypting or decoding the body; the LZO
\* decoder runs only for compress_kind 1, the zlib decoder only for 2.
C7_UnknownCompression ==
    (rb.compress >= 0) =>
        /\ (rb.compress \notin {0, 1, 2}) =>
               (rb.k = "err" /\ ~rb.decrypted /\ rb.codec = "none")
        /\ (rb.codec = "lzo") => (rb.compress = 1)
        /\ (rb.codec = "zlib") => (rb.compress = 2)

\* C8: in every state after parse_header has succeeded, Mdict.encrypt is 0
\* or 2 (a header with any other mode, such as 1, makes parse_header fail).
C8_EncryptModes ==
    (pc \in {"summary", "keyword_index", "keyword_block", "record_summary",
             "record_index", "definitions", "done"})
        => (encrypt \in {0, 2})

\* C9: after parse_header has succeeded, utf16 is TRUE exactly when the
\* Encoding attribute is "UTF-16", empty or absent.
C9_EncodingSelection ==
    (pc = "summary") =>
        (utf16 = (\/ "Encoding" \notin DOMAIN attrs
                  \/ attrs["Encoding"] \in {"UTF-16", ""}))

\* C10: while the definitions are streamed, a keyword whose resolution
\* fails yields no pair, and the run goes on: it never aborts once the
\* streaming has begun, and when it ends every keyword was tried.
C10_FailureIsSkipped ==
    /\ Len(emitted) = Len(SelectSeq(log, LAMBDA e : e.k = "ok"))
    /\ (log # <<>>) => (pc # "panicked")
    /\ (pc = "done") => (Len(log) = Len(FlatKeywords(kis)))

\* C11: the sink is not called before parse_header, parse_summary,
\* parse_keyword_index, parse_keyword_block, parse_record_summary and
\* parse_record_index have all returned Ok, one after the other: while one
\* of them is still to run nothing was resolved or emitted, and once a
\* keyword was resolved the fields are those that the six parsers leave
\* when each succeeds on the file; a run that one of them ended has emitted
\* nothing.
C11_IndicesBeforeSink ==
    /\ (pc \in {"header", "summary", "keyword_index", "keyword_block",
                "record_summary", "record_index", "load"})
           => (log = <<>> /\ emitted = <<>>)
    /\ (pc = "panicked" /\ log = <<>>) => (emitted = <<>>)
    /\ (log # <<>> \/ emitted # <<>> \/ pc \in {"definitions", "done"}) =>
           LET h == parse_header([xml |-> "ok", attrs |-> attrs],
                                 [attrs |-> NoAttrs, v2 |-> FALSE, encrypt |-> 0,
                                  utf16 |-> FALSE])
               l == LoadFile(file, v2, utf16, encrypt, overflow_checks)
           IN  /\ h.k = "ok"
               /\ <<h.v2, h.encrypt, h.utf16>> = <<v2, encrypt, utf16>>
               /\ l.k = "ok"
               /\ <<l.summary, l.kis, l.record_summary, l.record_index, l.fpos>>
                  = <<summary, kis, record_summary, record_index, fpos>>

\* parse_record_index has failed, after the five parsers before it
\* succeeded on a file with keywords: the run is over and nothing was emitted
C11_Witness ==
    /\ pc = "panicked"
    /\ log = <<>>
    /\ emitted = <<>>
    /\ record_index # <<>>
    /\ \E b \in 1..Len(kis) : kis[b].block # <<>>

\* number j (0-based) of the numbers stored in the record index region of
\* the file, which ends where the record blocks begin
StoredDelta(j) ==
    LET w == IF v2 THEN 8 ELSE 4
        start == record_summary.blocks_pos - record_summary.index_len
    IN  BigEndian(FRead(file, start + (j * w), w).val)

\* the sum of the stored numbers col, col + 2, .. of the first i pairs
RECURSIVE DeltaSum(_, _)
DeltaSum(i, col) ==
    IF i = 0 THEN 0 ELSE DeltaSum(i - 1, col) + StoredDelta((2 * (i - 1)) + col)

\* C15: after parse_record_index has succeeded, record_index holds
\* record_summary.num_blocks + 1 pairs, and pair i (0-based) is
\* (blocks_pos + the sum of the first i comp_delta values, the sum of the
\* first i decomp_delta values): pair 0 is (blocks_pos, 0), the last pair is
\* the sentinel (blocks_pos + total_comp, total_decomp).
C15_RecordIndexCursors ==
    (pc \in {"definitions", "done"} \/ log # <<>>) =>
        /\ Len(record_index) = record_summary.num_blocks + 1
        /\ record_index[1] = <<record_summary.blocks_pos, 0>>
        /\ \A i \in 0..record_summary.num_blocks :
               record_index[i + 1] = <<record_summary.blocks_pos + DeltaSum(i, 0),
                                       DeltaSum(i, 1)>>

\* the record index of a file of two record blocks was parsed: three pairs
\* with cursors that differ
C15_Witness ==
    /\ pc = "definitions"
    /\ record_summary.num_blocks = 2
    /\ Len(record_index) = 3
    /\ record_index[1][1] < record_index[2][1]
    /\ record_index[2][1] < record_index[3][1]
    /\ record_index[2][2] < record_index[3][2]

\* C16: while the definitions are streamed (parse_record_index has
\* succeeded), both columns of record_index are strictly increasing over
\* all its pairs: a file whose record index is not so was rejected before.
C16_RecordIndexMonotone ==
    (pc \in {"definitions", "done"} \/ log # <<>>) =>
        \A j \in 1..(Len(record_index) - 1) :
            /\ record_index[j][1] < record_index[j + 1][1]
            /\ record_index[j][2] < record_index[j + 1][2]

\* C18: for a record_index that is not empty (one that holds the sentinel
\* pair alone included) and a keyword offset that passes the bounds check
\* of parse_definition, the search stops at an li with
\* li + 1 < record_index.len(), so that record_index[li] and
\* record_index[li + 1] exist.
C18_SearchStaysInside ==
    \A i \in 1..Len(log) :
        LET off == log[i].kw.offset
            n == Len(record_index)
        IN  (n > 0 /\ InBounds(record_index, off))
            => (SearchLoop(record_index, off, 0, n - 1) + 1 < n
                /\ log[i].sel.li + 1 < n
                /\ log[i].sel.li >= 0)

(***************************************************************************)
(* Properties of RawDict.                                                  *)
(***************************************************************************)
\* the (name, value) a pending record of entry_cache stands for
PendingPair(wd, ft) ==
    <<wd.name, IF ft = "Entry" THEN as_bytes(wd.text[1]) ELSE wd.binary[1]>>

\* the (name, value) a committed row stands for
RowPair(row, ft) == <<row.name, EntryValue(row, ft)>>

\* the committed rows in id order, then the pending records
Stored ==
    [i \in DOMAIN entry_table |-> RowPair(entry_table[i], file_type)]
    \o [i \in DOMAIN entry_cache |-> PendingPair(entry_cache[i], file_type)]

\* C12: when insert_entry and flush_entry_cache are called with pairwise
\* distinct names, between calls the committed rows of the entry table in
\* id order followed by the pending entry_cache are the inserted entries in
\* insertion order; after every insert_entry the cache holds fewer than 200
\* records; every flush commits all pending records in one transaction and
\* leaves the cache empty.
C12_BatchedInsertion ==
    /\ Stored = inserted
    /\ \A i \in 1..(Len(entry_table) - 1) : entry_table[i].id < entry_table[i + 1].id
    /\ last.op = "insert_entry" => Len(entry_cache) < 200
    /\ (last.op = "flush_entry_cache" \/ last.committed > 0) =>
           /\ last.transactions = 1
           /\ last.committed = last.pending
           /\ last.skipped = 0
           /\ entry_cache = <<>>
    /\ last.transactions <= 1

\* an insert_entry that found 199 pending records has flushed all 200 in one
\* transaction
C12_Witness ==
    /\ last.op = "insert_entry"
    /\ last.committed = 200
    /\ Len(inserted) = 200
    /\ entry_cache = <<>>
    /\ Len(entry_table) = 200
    /\ file_type = "Entry"

\* the (name, entries) a row of table token stands for
TokenPair(row) == <<row.name, from_json(row.entries).v>>

\* the rows of the entry table and of the token table, as to_beluga is to
\* pass them
AllEntries == [i \in DOMAIN entry_table |-> RowPair(entry_table[i], file_type)]

AllTokens == [i \in DOMAIN token_table |-> TokenPair(token_table[i])]

\* what the loops of to_beluga have passed and fetched so far is right
PagedSoFar ==
    /\ rpc # "panicked"
    /\ \A i \in 1..(Len(entry_table) - 1) : entry_table[i].id < entry_table[i + 1].id
    /\ \A i \in 1..(Len(token_table) - 1) : token_table[i].id < token_table[i + 1].id
    /\ \A p \in DOMAIN entry_pages : entry_pages[p] <= 100
    /\ \A p \in DOMAIN token_pages : token_pages[p] <= 100
    /\ Len(entry_pages) <= (Len(entry_table) \div 100) + 1
    /\ Len(token_pages) <= (Len(token_table) \div 100) + 1
    /\ Len(passed_entries) <= Len(entry_table)
    /\ passed_entries = SubSeq(AllEntries, 1, Len(passed_entries))
    /\ Len(passed_tokens) <= Len(token_table)
    /\ passed_tokens = SubSeq(AllTokens, 1, Len(passed_tokens))
    /\ rpc # "entries" => passed_entries = AllEntries
    /\ rpc \in {"save", "returned"} => passed_tokens = AllTokens

\* C13: for every entry table (0 rows, exact multiples of 100 rows, ids with
\* or without gaps) the entry loop of to_beluga terminates, passes every row
\* to input_entry exactly once in strictly ascending id order and fetches at
\* most 100 rows per query; the same holds for the token loop and
\* input_token when the token table is not empty.
C13_PagedExactlyOnce == []PagedSoFar /\ <>(rpc = "returned")

\* a table of exactly 200 rows with gaps between the ids was read in pages
\* of 100, 100 and 0 rows, and a token table of 101 rows in pages of 100
\* and 1
C13_Witness ==
    /\ rpc = "returned"
    /\ Len(entry_table) = 200
    /\ entry_table[1].id = 2
    /\ entry_pages = <<100, 100, 0>>
    /\ Len(passed_entries) = 200
    /\ token_pages = <<100, 1>>
    /\ Len(passed_tokens) = 101

\* C14: every conversion into a Beluga archive (Mdict::to_beluga_index,
\* Mdict::to_beluga_data, RawDict::to_beluga) returns only after the
\* builder's save(dest) has run to completion: when the operation has
\* completed, the archive with all entries and tokens that were input has
\* been persisted at dest.
C14_SavedBeforeReturn == rpc = "returned" => saved = "done"

\* C17: a sink error during a flush is fatal: when the insertion of a record
\* or the commit fails inside flush_entry_cache or flush_token_cache (a name
\* that violates the UNIQUE constraint, say), the run aborts, and no failed
\* record is skipped while the rest of its batch is committed.
C17_SinkErrorsAreFatal ==
    /\ last.skipped > 0 => rpc = "panicked"
    /\ (last.op \in {"flush_entry_cache", "flush_token_cache"} /\ rpc # "panicked")
           => last.committed = last.pending

=============================================================================
